---- MODULE Spec2Model ----
(***************************************************************************)
(* process_transcription.py: a CSV of transcription segments is turned     *)
(* into SQL INSERT statements, printed between BEGIN; and COMMIT;.         *)
(*                                                                         *)
(* A string is a sequence of one-character strings; the fixed parts of a   *)
(* formatted string are kept as single pieces.  A record of the CSV reader *)
(* is a sequence of strings, a printed line is a sequence of pieces.       *)
(***************************************************************************)
EXTENDS Integers, Sequences, FiniteSets, TLC

VARIABLES
    argv,            \* sys.argv (lines 25, 29)
    fs,              \* what is at csv_path (line 30): NoFile, or the file's content
    pc,              \* the statement main / process_transcription is at
    open_files,      \* number of open handles on the input file (f, line 8)
    pos,             \* number of records the csv reader has yielded (line 9)
    row,             \* the loop variable of "for row in reader" (line 11)
    sql_statements,  \* the list process_transcription accumulates (line 7)
    statements,      \* main's local: the list the transform returned (line 37)
    idx,             \* number of statements main has printed (line 39)
    exc,             \* the exception process_transcription raised, or "none"
    stdout,          \* the lines printed to standard output
    stderr,          \* the lines printed to the error stream (line 43)
    exit_code        \* << >> while running, <<code>> once the process ended

vars == <<argv, fs, pc, open_files, pos, row, sql_statements, statements,
          idx, exc, stdout, stderr, exit_code>>

----------------------------------------------------------------------------
(* Bounds of the model *)

MaxRecords == 3      \* records in the file, header included
MaxTextLen == 3      \* characters of a text field in the one-row files

(* Program constants *)

MinFields == 3       \* len(row) >= 3
ArgCount == 2        \* len(sys.argv) != 2
ExitFailure == 1     \* sys.exit(1)
ExitSuccess == 0     \* main returns

----------------------------------------------------------------------------
(* Characters and strings *)

Quote == "'"
Space == " "
Tab == "\t"
Chars == {Quote, Space, Tab, "a"}
Whitespace == {Space, Tab}

RECURSIVE StringsUpTo(_)
StringsUpTo(n) ==
    IF n = 0 THEN {<< >>}
    ELSE LET shorter == StringsUpTo(n - 1)
         IN  shorter \cup {Append(s, c) : s \in shorter, c \in Chars}

(* str.replace("'", "''") *)
RECURSIVE ReplaceFirstOnly(_)
ReplaceFirstOnly(text) ==
    IF text = << >> THEN << >>
    ELSE IF Head(text) = Quote THEN <<Quote, Quote>> \o Tail(text)
    ELSE <<Head(text)>> \o ReplaceFirstOnly(Tail(text))

RECURSIVE Replace(_)
Replace(text) ==
    IF text = << >> THEN << >>
    ELSE IF Head(text) = Quote THEN <<Quote, Quote>> \o Replace(Tail(text))
    ELSE <<Head(text)>> \o Replace(Tail(text))

(* str.strip() *)
RECURSIVE LStrip(_)
LStrip(text) ==
    IF text # << >> /\ Head(text) \in Whitespace THEN LStrip(Tail(text))
    ELSE text

RECURSIVE RStrip(_)
RStrip(text) ==
    IF text # << >> /\ text[Len(text)] \in Whitespace
    THEN RStrip(SubSeq(text, 1, Len(text) - 1))
    ELSE text

StripLeftOnly(text) == LStrip(text)

Strip(text) == RStrip(LStrip(text))

(* line 18: text.replace("'", "''").strip() *)
EscapeText(text) == Strip(Replace(text))

(* lines 19-20: the f-string *)
InsertHead == "INSERT INTO transcriptions (content_id, text, start_time, end_time) \n VALUES ("
Sep == ", "
InsertTail == ");"

Statement(content_id, text, start, end) ==
    <<InsertHead, Quote>> \o content_id \o <<Quote, Sep, Quote>> \o text
        \o <<Quote, Sep>> \o start \o <<Sep>> \o end \o <<InsertTail>>

(* line 12 *)
HasAllColumns(r) == Len(r) >= MinFields

(* line 15: not start or not end or not text *)
HasEmptyFieldIgnoringText(r) == r[1] = << >> \/ r[2] = << >>

HasEmptyField(r) == r[1] = << >> \/ r[2] = << >> \/ r[3] = << >>

(* line 21 *)
AppendReversed(list, sql) == <<sql>> \o list

AppendStatement(list, sql) == Append(list, sql)

----------------------------------------------------------------------------
(* Inputs *)

NoFile == [records |-> << >>, tail |-> "absent"]

Program == <<"p">>
ContentId == <<"c">>
Argvs == {<<Program>>, <<Program, ContentId>>, <<Program, ContentId, <<"x">>>>}

One == <<"1">>
Two == <<"2">>
SampleTexts == {<<"a">>, <<Space>>, <<Tab, Quote, "a">>}
SampleRows ==
    {<<>>, <<One>>, <<One, Two>>}
    \cup {<<One, Two, t>> : t \in SampleTexts}
    \cup {<<<< >>, Two, <<"a">>>>, <<One, << >>, <<"a">>>>, <<One, Two, << >>>>}
    \cup {<<One, Two, <<"a">>, <<"x">>>>}

RECURSIVE RecordSeqs(_)
RecordSeqs(n) ==
    IF n = 0 THEN {<< >>}
    ELSE LET shorter == RecordSeqs(n - 1)
         IN  shorter \cup {Append(s, r) : s \in shorter, r \in SampleRows}

HeaderRow == <<<<"s">>, <<"e">>, <<"t">>>>

(* tail "eof": the file ends after the records; tail "bad": what follows  *)
(* the records cannot be decoded as UTF-8.                                 *)
Files ==
    {[records |-> rs, tail |-> t] : rs \in RecordSeqs(MaxRecords), t \in {"eof", "bad"}}
    \cup {[records |-> <<HeaderRow, <<One, Two, t>>>>, tail |-> "eof"] :
            t \in StringsUpTo(MaxTextLen)}

----------------------------------------------------------------------------
(* Messages *)

UsageLine == <<"Usage: python process_transcription.py <content_id>">>
NotFoundLine == <<"Error: File not found: ", "csv_path">>
BeginLine == <<"BEGIN;">>
CommitLine == <<"COMMIT;">>
ErrorLine(e) == <<"Error processing file: ", e>>

----------------------------------------------------------------------------

Init ==
    /\ argv \in Argvs
    /\ fs \in Files \cup {NoFile}
    /\ pc = "main"
    /\ open_files = 0
    /\ pos = 0
    /\ row = << >>
    /\ sql_statements = << >>
    /\ statements = << >>
    /\ idx = 0
    /\ exc = "none"
    /\ stdout = << >>
    /\ stderr = << >>
    /\ exit_code = << >>

(* lines 25-27 *)
CheckArgsAtLeast ==
    /\ pc = "main"
    /\ IF Len(argv) < ArgCount
       THEN /\ stdout' = Append(stdout, UsageLine)
            /\ exit_code' = <<ExitFailure>>
            /\ pc' = "exited"
       ELSE /\ pc' = "exists"
            /\ UNCHANGED <<stdout, exit_code>>
    /\ UNCHANGED <<argv, fs, open_files, pos, row, sql_statements, statements,
                   idx, exc, stderr>>

CheckArgs ==
    /\ pc = "main"
    /\ IF Len(argv) # ArgCount
       THEN /\ stdout' = Append(stdout, UsageLine)
            /\ exit_code' = <<ExitFailure>>
            /\ pc' = "exited"
       ELSE /\ pc' = "exists"
            /\ UNCHANGED <<stdout, exit_code>>
    /\ UNCHANGED <<argv, fs, open_files, pos, row, sql_statements, statements,
                   idx, exc, stderr>>

(* lines 29-34 *)
CheckExists ==
    /\ pc = "exists"
    /\ IF fs = NoFile
       THEN /\ stdout' = Append(stdout, NotFoundLine)
            /\ exit_code' = <<ExitFailure>>
            /\ pc' = "exited"
       ELSE /\ pc' = "call"
            /\ UNCHANGED <<stdout, exit_code>>
    /\ UNCHANGED <<argv, fs, open_files, pos, row, sql_statements, statements,
                   idx, exc, stderr>>

(* line 37 (the call) and line 7 *)
CallProcessAfterBegin ==
    /\ pc = "call"
    /\ stdout' = Append(stdout, BeginLine)
    /\ sql_statements' = << >>
    /\ pc' = "open"
    /\ UNCHANGED <<argv, fs, open_files, pos, row, statements, idx, exc,
                   stderr, exit_code>>

CallProcess ==
    /\ pc = "call"
    /\ sql_statements' = << >>
    /\ pc' = "open"
    /\ UNCHANGED <<argv, fs, open_files, pos, row, statements, idx, exc,
                   stdout, stderr, exit_code>>

(* An exception leaving the with block of line 8: the file is closed, and *)
(* the exception reaches the except clause of line 42.                     *)
RaiseInWithLeak(e) ==
    /\ exc' = e
    /\ open_files' = open_files
    /\ pc' = "except"

RaiseInWith(e) ==
    /\ exc' = e
    /\ open_files' = open_files - 1
    /\ pc' = "except"

(* line 8: open(csv_path, 'r', encoding='utf-8'); the open can fail       *)
(* although the path existed at line 32.                                   *)
OpenFile ==
    /\ pc = "open"
    /\ \/ /\ open_files' = open_files + 1
          /\ pos' = 0
          /\ pc' = "header"
          /\ UNCHANGED exc
       \/ /\ exc' = "OSError"
          /\ pc' = "except"
          /\ UNCHANGED <<open_files, pos>>
    /\ UNCHANGED <<argv, fs, row, sql_statements, statements, idx, stdout,
                   stderr, exit_code>>

(* line 10: next(reader) *)
HeaderNotSkipped(p) == p

HeaderSkipped(p) == p + 1

SkipHeader ==
    /\ pc = "header"
    /\ IF pos < Len(fs.records)
       THEN /\ pos' = HeaderSkipped(pos)
            /\ pc' = "loop"
            /\ UNCHANGED <<exc, open_files>>
       ELSE /\ RaiseInWith(IF fs.tail = "bad" THEN "UnicodeDecodeError"
                                              ELSE "StopIteration")
            /\ UNCHANGED pos
    /\ UNCHANGED <<argv, fs, row, sql_statements, statements, idx, stdout,
                   stderr, exit_code>>

(* line 11: for row in reader; the end of the loop leaves the with block *)
NextRow ==
    /\ pc = "loop"
    /\ IF pos < Len(fs.records)
       THEN /\ row' = fs.records[pos + 1]
            /\ pos' = pos + 1
            /\ pc' = "row"
            /\ UNCHANGED <<exc, open_files>>
       ELSE IF fs.tail = "bad"
       THEN /\ RaiseInWith("UnicodeDecodeError")
            /\ UNCHANGED <<row, pos>>
       ELSE /\ open_files' = open_files - 1
            /\ pc' = "return"
            /\ UNCHANGED <<row, pos, exc>>
    /\ UNCHANGED <<argv, fs, sql_statements, statements, idx, stdout, stderr,
                   exit_code>>

(* lines 12-21: the body of the loop *)
ProcessRow ==
    /\ pc = "row"
    /\ IF HasAllColumns(row) /\ ~HasEmptyField(row)
       THEN sql_statements' =
                AppendStatement(sql_statements,
                    Statement(argv[2], EscapeText(row[3]), row[1], row[2]))
       ELSE UNCHANGED sql_statements
    /\ pc' = "loop"
    /\ UNCHANGED <<argv, fs, open_files, pos, row, statements, idx, exc,
                   stdout, stderr, exit_code>>

(* line 22 and the assignment of line 37 *)
ReturnStatements ==
    /\ pc = "return"
    /\ statements' = sql_statements
    /\ pc' = "begin"
    /\ UNCHANGED <<argv, fs, open_files, pos, row, sql_statements, idx, exc,
                   stdout, stderr, exit_code>>

(* line 38 *)
PrintBegin ==
    /\ pc = "begin"
    /\ stdout' = Append(stdout, BeginLine)
    /\ idx' = 0
    /\ pc' = "print"
    /\ UNCHANGED <<argv, fs, open_files, pos, row, sql_statements, statements,
                   exc, stderr, exit_code>>

(* lines 39-40 *)
PrintStatementReversed ==
    /\ pc = "print"
    /\ idx < Len(statements)
    /\ stdout' = Append(stdout, statements[Len(statements) - idx])
    /\ idx' = idx + 1
    /\ UNCHANGED <<argv, fs, pc, open_files, pos, row, sql_statements,
                   statements, exc, stderr, exit_code>>

PrintStatement ==
    /\ pc = "print"
    /\ idx < Len(statements)
    /\ stdout' = Append(stdout, statements[idx + 1])
    /\ idx' = idx + 1
    /\ UNCHANGED <<argv, fs, pc, open_files, pos, row, sql_statements,
                   statements, exc, stderr, exit_code>>

(* line 41, then main returns *)
PrintCommit ==
    /\ pc = "print"
    /\ idx = Len(statements)
    /\ stdout' = Append(stdout, CommitLine)
    /\ exit_code' = <<ExitSuccess>>
    /\ pc' = "done"
    /\ UNCHANGED <<argv, fs, open_files, pos, row, sql_statements, statements,
                   idx, exc, stderr>>

(* lines 42-44 *)
HandleError ==
    /\ pc = "except"
    /\ stderr' = Append(stderr, ErrorLine(exc))
    /\ exit_code' = <<ExitFailure>>
    /\ pc' = "exited"
    /\ UNCHANGED <<argv, fs, open_files, pos, row, sql_statements, statements,
                   idx, exc, stdout>>

Next ==
    \/ CheckArgs
    \/ CheckExists
    \/ CallProcess
    \/ OpenFile
    \/ SkipHeader
    \/ NextRow
    \/ ProcessRow
    \/ ReturnStatements
    \/ PrintBegin
    \/ PrintStatement
    \/ PrintCommit
    \/ HandleError

Spec == Init /\ [][Next]_vars

----------------------------------------------------------------------------
(* The vocabulary of the properties, stated on the file's content *)

Records == fs.records

(* a data record that has at least 3 fields and non-empty start, end, text *)
ValidRecord(r) == Len(r) >= 3 /\ r[1] # << >> /\ r[2] # << >> /\ r[3] # << >>

(* number of records whose loop body has completed, header included *)
Processed == IF pc = "row" THEN pos - 1 ELSE pos

(* the positions, in file order, of the valid data records up to record n *)
RECURSIVE ValidIdx(_)
ValidIdx(n) ==
    IF n < 2 THEN << >>
    ELSE IF ValidRecord(Records[n]) THEN Append(ValidIdx(n - 1), n)
    ELSE ValidIdx(n - 1)

Range(s) == {s[i] : i \in DOMAIN s}

IsPrefix(s, t) == Len(s) <= Len(t) /\ SubSeq(t, 1, Len(s)) = s

Returned == pc \in {"begin", "print", "done"}

CountQuotes(s) == Cardinality({i \in DOMAIN s : s[i] = Quote})

RECURSIVE AllPaired(_)
AllPaired(s) ==
    IF s = << >> THEN TRUE
    ELSE IF Head(s) # Quote THEN AllPaired(Tail(s))
    ELSE Len(s) >= 2 /\ s[2] = Quote /\ AllPaired(Tail(Tail(s)))

(* the text between the delimiting quotes of a statement's text literal *)
TextLiteral(stmt, r) ==
    SubSeq(stmt, Len(argv[2]) + 6, Len(stmt) - Len(r[1]) - Len(r[2]) - 4)

Delimited(stmt, r) ==
    /\ stmt[Len(argv[2]) + 5] = Quote
    /\ stmt[Len(stmt) - Len(r[1]) - Len(r[2]) - 3] = Quote

(* the text with every quote doubled, built from its last character back *)
RECURSIVE Doubled(_)
Doubled(t) ==
    IF t = << >> THEN << >>
    ELSE LET last == t[Len(t)]
             init == Doubled(SubSeq(t, 1, Len(t) - 1))
         IN  IF last = Quote THEN init \o <<Quote, Quote>> ELSE Append(init, last)

(* lit is d without its leading and trailing whitespace *)
IsTrimOf(lit, d) ==
    /\ lit = << >> \/ (lit[1] \notin Whitespace /\ lit[Len(lit)] \notin Whitespace)
    /\ \E i \in 0..Len(d) : \E j \in i..Len(d) :
          /\ lit = SubSeq(d, i + 1, j)
          /\ \A k \in 1..i : d[k] \in Whitespace
          /\ \A k \in (j + 1)..Len(d) : d[k] \in Whitespace

AllWhitespace(t) == \A k \in DOMAIN t : t[k] \in Whitespace

----------------------------------------------------------------------------
(* C1: once process_transcription has returned for a file that starts with *)
(* a header, the number of statements equals the number of data records    *)
(* minus those with fewer than 3 fields or an empty field among the first  *)
(* three, and every data record has been read.                             *)
C1_Count ==
    Returned =>
        /\ pos = Len(Records)
        /\ statements = sql_statements
        /\ Len(statements) =
               (Len(Records) - 1)
               - Cardinality({i \in 2..Len(Records) : ~ValidRecord(Records[i])})

(* a 2-field row and an empty-text row next to no valid row: none counted *)
C1_Witness ==
    /\ Returned
    /\ Len(Records) = 3
    /\ Len(Records[2]) = 2
    /\ Len(Records[3]) = 3 /\ Records[3][3] = << >>
    /\ statements = << >>

(* the k-th statement of the list is the one built from the k-th valid     *)
(* data record, in file order, among the records processed so far          *)
C2_InOrder ==
    LET idxs == ValidIdx(Processed)
    IN  /\ Len(sql_statements) = Len(idxs)
        /\ \A k \in 1..Len(idxs) :
              LET r == Records[idxs[k]]
              IN  sql_statements[k] = Statement(argv[2], EscapeText(r[3]), r[1], r[2])

(* C2: order preservation: at every point of the loop the statements are  *)
(* those of the valid data records processed so far, in file order, and    *)
(* every step leaves the old list a prefix of the new one (append only).   *)
C2_Order == [](C2_InOrder) /\ [][IsPrefix(sql_statements, sql_statements')]_vars

C2_Witness ==
    /\ Returned
    /\ Len(statements) = 2
    /\ statements[1] # statements[2]

(* C3: the first record is consumed by the header skip and never becomes   *)
(* the loop's row: no statement exists before the second record has been   *)
(* processed, and a file that holds only a header yields no statement.     *)
C3_HeaderExcluded ==
    /\ pc = "row" => pos >= 2
    /\ pc = "loop" => pos >= 1
    /\ Processed <= 1 => sql_statements = << >>
    /\ Len(sql_statements) <= (IF Processed >= 1 THEN Processed - 1 ELSE 0)

C3_Witness ==
    /\ pc = "done"
    /\ Len(Records) = 1
    /\ ValidRecord(Records[1])
    /\ statements = << >>

(* C4: when the file opens and every record is read without a decode      *)
(* failure, process_transcription raises nothing.                          *)
C4_NoOwnError ==
    (fs.tail = "eof" /\ exc # "OSError") => exc = "none"

(* C5: when process_transcription raises, standard output is and stays     *)
(* empty, the diagnostic goes to the error stream and the exit code is 1;  *)
(* BEGIN; is on standard output only after the transform has returned.     *)
C5_NoOutputOnError ==
    /\ exc # "none" =>
          /\ stdout = << >>
          /\ pc \in {"except", "exited"}
          /\ pc = "exited" => (exit_code = <<1>> /\ stderr = <<ErrorLine(exc)>>)
    /\ BeginLine \in Range(stdout) => (Returned /\ exc = "none")

C5_Witness ==
    /\ pc = "exited"
    /\ exc = "UnicodeDecodeError"
    /\ sql_statements # << >>
    /\ stdout = << >>
    /\ stderr # << >>

(* C6: when main ends successfully, standard output is BEGIN;, then the    *)
(* returned statements in the returned order, then COMMIT;, and the exit   *)
(* code is 0; for a header-only file it is BEGIN; then COMMIT;.            *)
C6_Output ==
    pc = "done" =>
        /\ stdout = <<BeginLine>> \o statements \o <<CommitLine>>
        /\ exit_code = <<0>>
        /\ Len(Records) = 1 => stdout = <<BeginLine, CommitLine>>

C6_Witness ==
    /\ pc = "done"
    /\ Len(stdout) = 4
    /\ stdout[2] # stdout[3]

(* C7: with an argument count other than one, or without the input file,   *)
(* main never gets past its checks: the transform is not called, the file  *)
(* is not opened, no BEGIN;, statement or COMMIT; is printed, the exit     *)
(* code is non-zero, and the usage check comes first.                      *)
C7_EarlyExit ==
    (Len(argv) # 2 \/ fs = NoFile) =>
        /\ pc \in {"main", "exists", "exited"}
        /\ open_files = 0
        /\ exc = "none"
        /\ Range(stdout) \subseteq {UsageLine, NotFoundLine}
        /\ pc = "exited" => exit_code = <<1>>
        /\ (pc = "exited" /\ Len(argv) # 2) => stdout = <<UsageLine>>
        /\ (pc = "exited" /\ Len(argv) = 2) => stdout = <<NotFoundLine>>

C7_Witness ==
    /\ pc = "exited"
    /\ Len(argv) = 3
    /\ fs # NoFile
    /\ stdout = <<UsageLine>>

(* C8: the text literal of every statement holds twice as many quotes as   *)
(* the text of its source row, all of them in adjacent pairs, between the  *)
(* two delimiting quotes.                                                  *)
C8_Escaping ==
    LET idxs == ValidIdx(Processed)
    IN  /\ Len(sql_statements) = Len(idxs)
        /\ \A k \in 1..Len(idxs) :
              LET r == Records[idxs[k]]
                  lit == TextLiteral(sql_statements[k], r)
              IN  /\ Delimited(sql_statements[k], r)
                  /\ CountQuotes(lit) = 2 * CountQuotes(r[3])
                  /\ AllPaired(lit)

C8_Witness ==
    /\ Returned
    /\ Len(Records) = 2
    /\ Len(Records[2]) = 3
    /\ Records[2][3] = <<"a", Quote, Quote>>
    /\ Len(statements) = 1
    /\ TextLiteral(statements[1], Records[2]) = <<"a", Quote, Quote, Quote, Quote>>

(* C9: the text literal of every statement is the row's text with quotes   *)
(* doubled and the leading and trailing whitespace removed; a row whose    *)
(* text is only whitespace is kept and its literal is empty.               *)
C9_Whitespace ==
    LET idxs == ValidIdx(Processed)
    IN  /\ Len(sql_statements) = Len(idxs)
        /\ \A k \in 1..Len(idxs) :
              LET r == Records[idxs[k]]
                  lit == TextLiteral(sql_statements[k], r)
              IN  /\ IsTrimOf(lit, Doubled(r[3]))
                  /\ AllWhitespace(r[3]) => lit = << >>

C9_Witness ==
    /\ Returned
    /\ Len(Records) = 2
    /\ Len(Records[2]) = 3
    /\ Records[2][3] = <<Space, Tab>>
    /\ Len(statements) = 1
    /\ TextLiteral(statements[1], Records[2]) = << >>

(* C10: the input file is open only inside process_transcription, at most  *)
(* one handle at a time, and closed once it has returned or raised.        *)
C10_FileClosed ==
    /\ open_files \in {0, 1}
    /\ open_files = 1 <=> pc \in {"header", "loop", "row"}

C10_Witness ==
    /\ pc = "except"
    /\ exc = "UnicodeDecodeError"
    /\ pos >= 2
    /\ open_files = 0

====
